---- MODULE Spec2Model ----
(***************************************************************************)
(* A model of the risk-metrics engine of ibovespa-risk-analysis:           *)
(*   src/src/analysis/custom_metrics.py     the metric calculators          *)
(*   src/src/analysis/risk_metrics.py       IbovespaRiskAnalyzer            *)
(*   src/src/analysis/portfolio_analysis.py PortfolioAnalyzer               *)
(*                                                                         *)
(* Numbers are exact: a finite float is a rational <<n, d>> in lowest      *)
(* terms, or the signed square root of one.  The non-finite floats NaN,    *)
(* +inf and -inf that numpy and pandas produce are values of their own.    *)
(***************************************************************************)
EXTENDS Integers, Sequences, FiniteSets, TLC

VARIABLES
    data,       \* IbovespaRiskAnalyzer.data: None or a price table
    metrics,    \* IbovespaRiskAnalyzer.metrics: metric name -> one-row table
    result,     \* outcome of the analyzer's last call
    computed,   \* history: number of calculate_all_metrics calls that returned
    inp,        \* the argument handed to a calculator
    out,        \* what the calculator returned
    pf,         \* the PortfolioAnalyzer object (after __init__)
    pfin,       \* the arguments of PortfolioAnalyzer.__init__
    pfout       \* outcome of the portfolio's last call

vars == <<data, metrics, result, computed, inp, out, pf, pfin, pfout>>

-----------------------------------------------------------------------------
(* Exact rational arithmetic.                                              *)

Abs(x) == IF x < 0 THEN -x ELSE x

Sgn(x) == IF x < 0 THEN -1 ELSE IF x > 0 THEN 1 ELSE 0

RECURSIVE GCD(_, _)
GCD(a, b) == IF b = 0 THEN a ELSE GCD(b, a % b)

\* n/d in lowest terms with a positive denominator (d # 0)
Rat(n, d) ==
    LET g == GCD(Abs(n), Abs(d))
        s == IF d < 0 THEN -1 ELSE 1
    IN  <<(s * n) \div g, (s * d) \div g>>

RInt(i) == <<i, 1>>

\* the arithmetic goes through the least common denominator and cancels
\* before it multiplies, which keeps the intermediate integers small
RAdd(a, b) ==
    LET g == GCD(a[2], b[2])
    IN  Rat(a[1] * (b[2] \div g) + b[1] * (a[2] \div g), (a[2] \div g) * b[2])

RNeg(a) == <<-a[1], a[2]>>

RSub(a, b) == RAdd(a, RNeg(b))

RMul(a, b) ==
    LET x == Rat(a[1], b[2])
        y == Rat(b[1], a[2])
    IN  <<x[1] * y[1], x[2] * y[2]>>

\* b # 0
RDiv(a, b) == RMul(a, Rat(b[2], b[1]))

RLt(a, b) ==
    LET g == GCD(a[2], b[2])
    IN  a[1] * (b[2] \div g) < b[1] * (a[2] \div g)

RLe(a, b) ==
    LET g == GCD(a[2], b[2])
    IN  a[1] * (b[2] \div g) <= b[1] * (a[2] \div g)

RSgn(a) == Sgn(a[1])

RAbs(a) == <<Abs(a[1]), a[2]>>

\* floor of a non-negative rational
RFloor(a) == a[1] \div a[2]

-----------------------------------------------------------------------------
(* Floats: NaN, +-inf, a rational, or the signed square root of a rational *)
(* (k = "root": the value is s * sqrt(v)).                                 *)

NaN == [k |-> "nan", s |-> 0, v |-> <<0, 1>>]

Inf(sg) == [k |-> "inf", s |-> sg, v |-> <<0, 1>>]

Num(r) == [k |-> "num", s |-> RSgn(r), v |-> r]

Root(sg, sq) == [k |-> "root", s |-> IF sq[1] = 0 THEN 0 ELSE sg, v |-> sq]

IsNaN(x) == x.k = "nan"

IsInf(x) == x.k = "inf"

IsFinite(x) == x.k \in {"num", "root"}

\* float subtraction of two rationals-or-NaN
FSub(x, y) ==
    IF IsNaN(x) \/ IsNaN(y) THEN NaN ELSE Num(RSub(x.v, y.v))

FAdd(x, y) ==
    IF IsNaN(x) \/ IsNaN(y) THEN NaN ELSE Num(RAdd(x.v, y.v))

FMul(x, y) ==
    IF IsNaN(x) \/ IsNaN(y) THEN NaN ELSE Num(RMul(x.v, y.v))

\* IEEE division as numpy does it: x/0 is +-inf, 0/0 is NaN, no exception
FDiv(x, y) ==
    IF IsNaN(x) \/ IsNaN(y) THEN NaN
    ELSE IF y.v[1] = 0
         THEN (IF x.v[1] = 0 THEN NaN ELSE Inf(RSgn(x.v)))
         ELSE Num(RDiv(x.v, y.v))

\* x < y for floats that are rationals or NaN; any comparison with NaN is False
FLt(x, y) == ~IsNaN(x) /\ ~IsNaN(y) /\ RLt(x.v, y.v)

FLe(x, y) == ~IsNaN(x) /\ ~IsNaN(y) /\ RLe(x.v, y.v)

-----------------------------------------------------------------------------
(* pandas Series: a sequence of rows [t |-> timestamp, v |-> float], the   *)
(* timestamps strictly increasing.  pandas DataFrame: the shared index,    *)
(* the column names in order, and one sequence of floats per column.       *)

\* pd.Series(...): the rows of a series, held as an explicit sequence
Series(rows) == rows \o <<>>

\* the columns of a DataFrame, held as an explicit function on the names
Frame(cols) == cols @@ <<>>

Vals(s) == Series([i \in 1..Len(s) |-> s[i].v])

Idx(s) == [i \in 1..Len(s) |-> s[i].t]

IdxSet(s) == {s[i].t : i \in 1..Len(s)}

NotNaNRow(r) == ~IsNaN(r.v)

\* Series.dropna(): the rows whose value is not NaN, in order
dropna(s) == SelectSeq(s, NotNaNRow)

\* df[col]
Column(df, col) == Series([i \in 1..Len(df.idx) |-> [t |-> df.idx[i], v |-> df.val[col][i]]])

ColSet(df) == {df.columns[i] : i \in 1..Len(df.columns)}

RECURSIVE SumR(_)
SumR(rs) == IF rs = <<>> THEN <<0, 1>> ELSE RAdd(Head(rs), SumR(Tail(rs)))

\* Series.mean(): NaN rows skipped; NaN when nothing is left
mean(s) ==
    LET x == Vals(dropna(s))
    IN  IF Len(x) = 0 THEN NaN
        ELSE Num(RDiv(SumR([i \in 1..Len(x) |-> x[i].v]), RInt(Len(x))))

\* sample variance (ddof = 1) of the non-NaN rows, as a rational; only for
\* series with at least 2 such rows
variance(s) ==
    LET x  == Vals(dropna(s))
        m  == mean(s).v
        sq == [i \in 1..Len(x) |-> RMul(RSub(x[i].v, m), RSub(x[i].v, m))]
    IN  RDiv(SumR(sq), RInt(Len(x) - 1))

\* Series.std(): ddof = 1; NaN with fewer than 2 observations
std(s) ==
    IF Len(dropna(s)) < 2 THEN NaN ELSE Root(1, variance(s))

\* s - c for a scalar c (broadcast)
SubScalar(s, c) == [i \in 1..Len(s) |-> [t |-> s[i].t, v |-> FSub(s[i].v, Num(c))]]

IsNegRow(r) == FLt(r.v, Num(<<0, 1>>))

\* s[s < 0]
Negatives(s) == SelectSeq(s, IsNegRow)

\* insertion of a rational into an ascending sequence
RECURSIVE InsertSorted(_, _)
InsertSorted(x, ys) ==
    IF ys = <<>> THEN <<x>>
    ELSE IF RLe(x, Head(ys)) THEN <<x>> \o ys
         ELSE <<Head(ys)>> \o InsertSorted(x, Tail(ys))

RECURSIVE SortR(_)
SortR(xs) == IF xs = <<>> THEN <<>> ELSE InsertSorted(Head(xs), SortR(Tail(xs)))

\* quantile with interpolation='lower': the order statistic below the position
quantile_lower(s, q) ==
    LET x  == Vals(dropna(s))
        a  == SortR([i \in 1..Len(x) |-> x[i].v])
        lo == RFloor(RMul(RInt(Len(a) - 1), q))
    IN  IF Len(a) = 0 THEN NaN ELSE Num(a[lo + 1])

\* Series.quantile(q), 0 <= q <= 1, interpolation='linear' (the default):
\* position h = (n-1)q in the sorted non-NaN values, interpolated between
\* the two neighbours; NaN for an empty series
quantile(s, q) ==
    LET x  == Vals(dropna(s))
        a  == SortR([i \in 1..Len(x) |-> x[i].v])
        n  == Len(a)
        h  == RMul(RInt(n - 1), q)
        lo == RFloor(h)
        hi == IF lo + 1 > n - 1 THEN n - 1 ELSE lo + 1
        g  == RSub(h, RInt(lo))
    IN  IF n = 0 THEN NaN
        ELSE Num(RAdd(a[lo + 1], RMul(RSub(a[hi + 1], a[lo + 1]), g)))

\* pct_change with the change taken relative to the current price
pct_change_by_current(s) ==
    [i \in 1..Len(s) |->
        [t |-> s[i].t,
         v |-> IF i = 1 THEN NaN
               ELSE FDiv(FSub(s[i].v, s[i - 1].v), s[i].v)]]

\* Series.pct_change(): v[i] / v[i-1] - 1, the first row NaN
pct_change(s) ==
    Series([i \in 1..Len(s) |->
              [t |-> s[i].t,
               v |-> IF i = 1 THEN NaN
                     ELSE FSub(FDiv(s[i].v, s[i - 1].v), Num(<<1, 1>>))]])

\* 1 + s
OnePlus(s) == Series([i \in 1..Len(s) |-> [t |-> s[i].t, v |-> FAdd(Num(<<1, 1>>), s[i].v)]])

\* Series.cumprod(): skipna, a NaN row stays NaN and does not enter the product
RECURSIVE CumProdAt(_, _)
CumProdAt(s, i) ==
    IF i = 0 THEN <<1, 1>>
    ELSE IF IsNaN(s[i].v) THEN CumProdAt(s, i - 1)
         ELSE RMul(s[i].v.v, CumProdAt(s, i - 1))

cumprod(s) ==
    Series([i \in 1..Len(s) |->
              [t |-> s[i].t, v |-> IF IsNaN(s[i].v) THEN NaN ELSE Num(CumProdAt(s, i))]])

\* the largest of a non-empty set of rationals
MaxR(S) == CHOOSE x \in S : \A y \in S : RLe(y, x)

MinR(S) == CHOOSE x \in S : \A y \in S : RLe(x, y)

\* Series.expanding().max(): min_periods = 1, the maximum of the non-NaN rows
\* so far, NaN while there is none
expanding_max(s) ==
    Series([i \in 1..Len(s) |->
              LET seen == {s[j].v.v : j \in {j \in 1..i : ~IsNaN(s[j].v)}}
              IN  [t |-> s[i].t, v |-> IF seen = {} THEN NaN ELSE Num(MaxR(seen))]])

\* Series.min(): skipna; NaN when no row is left
min(s) ==
    LET x == Vals(dropna(s))
    IN  IF Len(x) = 0 THEN NaN ELSE Num(MinR({x[i].v : i \in 1..Len(x)}))

\* returns.index.intersection(risk_free_rate.index), then .loc[common_idx]
Align(s, other) ==
    LET InOther(r) == r.t \in IdxSet(other)
    IN  SelectSeq(s, InOther)

\* a - b row by row for two series over the same index
SubSeries(a, b) == [i \in 1..Len(a) |-> [t |-> a[i].t, v |-> FSub(a[i].v, b[i].v)]]

-----------------------------------------------------------------------------
(* custom_metrics.py: the calculators on a single Series.  A risk-free     *)
(* input is [kind |-> "scalar", c |-> annualized rate] or                  *)
(* [kind |-> "series", s |-> dated daily rates].                           *)

\* the default of every periods_per_year parameter
PeriodsPerYear == 252

\* calculate_returns without the dropna: the first row stays, as NaN
calculate_returns_keepna(prices) == pct_change(prices)

\* calculate_returns(prices), prices a Series
calculate_returns(prices) == dropna(pct_change(prices))

\* np.sqrt(ppy) * m / sd, where m is a mean and sd a standard deviation:
\* numpy float division, so a zero sd gives +-inf, or NaN when m is 0 too
SqrtTimesOver(ppy, m, sd) ==
    IF IsNaN(m) \/ IsNaN(sd) THEN NaN
    ELSE IF sd.v[1] = 0
         THEN (IF m.v[1] = 0 THEN NaN ELSE Inf(RSgn(m.v)))
         ELSE Root(RSgn(m.v), RDiv(RMul(RInt(ppy), RMul(m.v, m.v)), sd.v))

\* np.sqrt(x): NaN for NaN and for a negative number
NpSqrt(x) == IF IsNaN(x) \/ x.v[1] < 0 THEN NaN ELSE Root(1, x.v)

\* sd * np.sqrt(ppy)
TimesSqrt(sd, ppy) ==
    IF IsNaN(sd) THEN NaN ELSE Root(1, RMul(sd.v, RInt(ppy)))

\* excess returns over every return date, a missing rate taken as 0
ExcessReturns_imputed(returns, risk_free_rate, ppy) ==
    IF risk_free_rate.kind = "series"
    THEN [i \in 1..Len(returns) |->
            [t |-> returns[i].t,
             v |-> IF returns[i].t \in IdxSet(risk_free_rate.s)
                   THEN FSub(returns[i].v,
                             risk_free_rate.s[CHOOSE j \in 1..Len(risk_free_rate.s) :
                                                  risk_free_rate.s[j].t = returns[i].t].v)
                   ELSE returns[i].v]]
    ELSE SubScalar(returns, RDiv(risk_free_rate.c, RInt(ppy)))

\* the excess returns of lines 36-59 and 76-93
ExcessReturns(returns, risk_free_rate, ppy) ==
    IF risk_free_rate.kind = "series"
    THEN SubSeries(Align(returns, risk_free_rate.s), Align(risk_free_rate.s, returns))
    ELSE SubScalar(returns, RDiv(risk_free_rate.c, RInt(ppy)))

\* returns_to_use of calculate_sortino_ratio: the aligned returns (line 88)
\* or the returns themselves (line 94)
ReturnsToUse(returns, risk_free_rate) ==
    IF risk_free_rate.kind = "series"
    THEN Align(returns, risk_free_rate.s)
    ELSE returns

\* Sharpe falling back to a zero rate when no date is shared with the rates
calculate_sharpe_ratio_fallback(returns, risk_free_rate, ppy) ==
    LET excess_returns == ExcessReturns(returns, risk_free_rate, ppy)
    IN  IF risk_free_rate.kind = "series" /\ Len(excess_returns) > 0
        THEN SqrtTimesOver(ppy, mean(excess_returns), std(excess_returns))
        ELSE SqrtTimesOver(ppy, mean(returns), std(returns))

\* Sharpe with the std of the aligned raw returns under a dated rate series
calculate_sharpe_ratio_raw_std(returns, risk_free_rate, ppy) ==
    LET excess_returns == ExcessReturns(returns, risk_free_rate, ppy)
    IN  SqrtTimesOver(ppy, mean(excess_returns), std(ReturnsToUse(returns, risk_free_rate)))

calculate_sharpe_ratio(returns, risk_free_rate, ppy) ==
    LET excess_returns == ExcessReturns(returns, risk_free_rate, ppy)
    IN  IF risk_free_rate.kind = "series"
        THEN SqrtTimesOver(ppy, mean(excess_returns), std(excess_returns))
        ELSE SqrtTimesOver(ppy, mean(excess_returns), std(returns))

\* SortinoOf without the "downside_std > 0" guard
SortinoOf_unguarded(excess_returns, returns_to_use, ppy) ==
    SqrtTimesOver(ppy, mean(excess_returns), std(Negatives(returns_to_use)))

\* SortinoOf with the downside taken from the excess returns below 0
SortinoOf_excess_downside(excess_returns, returns_to_use, ppy) ==
    LET downside     == Negatives(excess_returns)
        downside_std == std(downside)
    IN  IF ~IsNaN(downside_std) /\ downside_std.v[1] > 0
        THEN SqrtTimesOver(ppy, mean(excess_returns), downside_std)
        ELSE NaN

\* lines 123-128: "if downside_std > 0", a comparison NaN fails
SortinoOf(excess_returns, returns_to_use, ppy) ==
    LET downside     == Negatives(returns_to_use)
        downside_std == std(downside)
    IN  IF ~IsNaN(downside_std) /\ downside_std.v[1] > 0
        THEN SqrtTimesOver(ppy, mean(excess_returns), downside_std)
        ELSE NaN

calculate_sortino_ratio(returns, risk_free_rate, ppy) ==
    SortinoOf(ExcessReturns(returns, risk_free_rate, ppy),
              ReturnsToUse(returns, risk_free_rate), ppy)

calculate_volatility(returns, ppy) == TimesSqrt(std(returns), ppy)

\* the peak taken to be the initial value 1 instead of the running maximum
running_max_initial(cumulative) ==
    [i \in 1..Len(cumulative) |-> [t |-> cumulative[i].t, v |-> Num(<<1, 1>>)]]

\* lines 158-160, shared by calculate_max_drawdown and calculate_ulcer_index
running_max(cumulative) == expanding_max(cumulative)

DrawdownSeries(prices) ==
    LET cumulative == cumprod(OnePlus(pct_change(prices)))
        rmax       == running_max(cumulative)
    IN  Series([i \in 1..Len(prices) |->
                  [t |-> prices[i].t,
                   v |-> FDiv(FSub(cumulative[i].v, rmax[i].v), rmax[i].v)]])

calculate_max_drawdown(prices) == min(DrawdownSeries(prices))

calculate_var(returns, confidence) == quantile(returns, RSub(<<1, 1>>, confidence))

\* the other tail: returns[returns >= var]
AtOrAbove(returns, var) ==
    LET Upper(r) == FLe(var, r.v)
    IN  SelectSeq(returns, Upper)

\* the tail strictly below: returns[returns < var]
AtOrBelow_strict(returns, var) ==
    LET Tail5(r) == FLt(r.v, var)
    IN  SelectSeq(returns, Tail5)

\* returns[returns <= var]
AtOrBelow(returns, var) ==
    LET Tail5(r) == FLe(r.v, var)
    IN  SelectSeq(returns, Tail5)

calculate_cvar(returns, confidence) ==
    LET var == calculate_var(returns, confidence)
    IN  mean(AtOrBelow(returns, var))

calculate_semi_deviation(returns, ppy) == TimesSqrt(std(Negatives(returns)), ppy)

\* np.sqrt((drawdown ** 2).mean())
calculate_ulcer_index(prices) ==
    LET drawdown == DrawdownSeries(prices)
        sq == [i \in 1..Len(drawdown) |->
                 [t |-> drawdown[i].t, v |-> FMul(drawdown[i].v, drawdown[i].v)]]
    IN  NpSqrt(mean(sq))

\* (returns - returns.mean()).abs().mean()
calculate_mad(returns) ==
    LET m   == mean(returns)
        dev == [i \in 1..Len(returns) |->
                  [t |-> returns[i].t,
                   v |-> IF IsNaN(m) \/ IsNaN(returns[i].v) THEN NaN
                         ELSE Num(RAbs(RSub(returns[i].v.v, m.v)))]]
    IN  mean(dev)

-----------------------------------------------------------------------------
(* custom_metrics.py: the calculators on a DataFrame.  The result, a       *)
(* pandas Series indexed by column name, is a function on the columns.     *)

\* a row of the table holds a NaN
RowHasNaN(df, i) == \E c \in ColSet(df) : IsNaN(df.val[c][i])

\* the positions of the rows DataFrame.dropna() keeps, in order
RECURSIVE KeptRows(_, _)
KeptRows(df, i) ==
    IF i = 0 THEN <<>>
    ELSE IF RowHasNaN(df, i) THEN KeptRows(df, i - 1)
         ELSE Append(KeptRows(df, i - 1), i)

\* DataFrame.pct_change(): column by column
pct_change_df(df) ==
    [idx |-> df.idx, columns |-> df.columns,
     val |-> Frame([c \in ColSet(df) |-> Vals(pct_change(Column(df, c)))])]

\* DataFrame.dropna(): every row with a NaN in any column is dropped
dropna_df(df) ==
    LET keep == KeptRows(df, Len(df.idx))
    IN  [idx |-> Series([i \in 1..Len(keep) |-> df.idx[keep[i]]]),
         columns |-> df.columns,
         val |-> Frame([c \in ColSet(df) |->
                          Series([i \in 1..Len(keep) |-> df.val[c][keep[i]]])])]

\* calculate_returns(prices), prices a DataFrame
calculate_returns_df(prices) == dropna_df(pct_change_df(prices))

\* lines 48-49 and 59-60: excess returns per column, then mean and std per column
calculate_sharpe_ratio_df(returns, risk_free_rate, ppy) ==
    [c \in ColSet(returns) |->
        LET col    == Column(returns, c)
            excess == ExcessReturns(col, risk_free_rate, ppy)
        IN  IF risk_free_rate.kind = "series"
            THEN SqrtTimesOver(ppy, mean(excess), std(excess))
            ELSE SqrtTimesOver(ppy, mean(excess), std(col))]

\* lines 97-121: the loop over returns.columns
calculate_sortino_ratio_df(returns, risk_free_rate, ppy) ==
    [c \in ColSet(returns) |->
        LET col_excess  == ExcessReturns(Column(returns, c), risk_free_rate, ppy)
            col_returns == ReturnsToUse(Column(returns, c), risk_free_rate)
        IN  SortinoOf(col_excess, col_returns, ppy)]

calculate_volatility_df(returns, ppy) ==
    [c \in ColSet(returns) |-> TimesSqrt(std(Column(returns, c)), ppy)]

\* prices.apply(lambda x: calculate_max_drawdown(x))
calculate_max_drawdown_df(prices) ==
    [c \in ColSet(prices) |-> calculate_max_drawdown(Column(prices, c))]

\* returns.quantile(1 - confidence): DataFrame.quantile works column by column
calculate_var_df(returns, confidence) ==
    [c \in ColSet(returns) |-> quantile(Column(returns, c), RSub(<<1, 1>>, confidence))]

\* the loop with the VaR of the first column used for every column
calculate_cvar_df_shared_var(returns, confidence) ==
    [c \in ColSet(returns) |->
        LET var == calculate_var(Column(returns, returns.columns[1]), confidence)
        IN  mean(AtOrBelow(Column(returns, c), var))]

\* lines 191-196
calculate_cvar_df(returns, confidence) ==
    [c \in ColSet(returns) |->
        LET var == calculate_var(Column(returns, c), confidence)
        IN  mean(AtOrBelow(Column(returns, c), var))]

\* lines 213-218
calculate_semi_deviation_df(returns, ppy) ==
    [c \in ColSet(returns) |->
        TimesSqrt(std(Negatives(Column(returns, c))), ppy)]

\* prices.apply(lambda x: calculate_ulcer_index(x))
calculate_ulcer_index_df(prices) ==
    [c \in ColSet(prices) |-> calculate_ulcer_index(Column(prices, c))]

calculate_mad_df(returns) ==
    [c \in ColSet(returns) |-> calculate_mad(Column(returns, c))]

-----------------------------------------------------------------------------
(* The inputs the calculators are applied to.                              *)

\* longest return series, longest price series, most rows of a price table
MaxLen == 3

MaxPrices == 4

MaxRows == 3

PriceValues == {1, 2, 4}

\* the second column of a table moves less
PriceValuesB == {1, 2}

ReturnValues == {<<-1, 2>>, <<-1, 4>>, <<0, 1>>, <<1, 2>>}

ConfidenceInputs == {<<19, 20>>, <<1, 2>>, <<1, 1>>, <<0, 1>>}

\* a price series over the dates 1..n
PriceSeries(f) == [i \in DOMAIN f |-> [t |-> i, v |-> Num(<<f[i], 1>>)]]

\* a return series over the dates 2..n+1 (date 1 has no return)
ReturnSeries(f) == [i \in DOMAIN f |-> [t |-> i + 1, v |-> Num(f[i])]]

PriceSeriesInputs ==
    UNION {{PriceSeries(f) : f \in [1..n -> PriceValues]} : n \in 0..MaxPrices}

ReturnSeriesInputs ==
    UNION {{ReturnSeries(f) : f \in [1..n -> ReturnValues]} : n \in 0..MaxLen}

PriceTable(fa, fb) ==
    [idx |-> [i \in DOMAIN fa |-> i], columns |-> <<"A", "B">>,
     val |-> [c \in {"A", "B"} |->
                [i \in DOMAIN fa |-> Num(<<(IF c = "A" THEN fa[i] ELSE fb[i]), 1>>)]]]

PriceTableInputs ==
    UNION {{PriceTable(fa, fb) : fa \in [1..n -> PriceValues], fb \in [1..n -> PriceValuesB]}
           : n \in 0..MaxRows}

Scalar(c) == [kind |-> "scalar", c |-> c, s |-> <<>>]

\* a dated rate series on the dates T: 1/4 throughout, or 1/4 on even dates only
RateAt(pattern, t) == IF pattern = "alt" /\ t % 2 = 1 THEN <<0, 1>> ELSE <<1, 4>>

RECURSIVE RateRows(_, _, _)
RateRows(T, pattern, t) ==
    IF t = 0 THEN <<>>
    ELSE IF t \in T THEN Append(RateRows(T, pattern, t - 1), [t |-> t, v |-> Num(RateAt(pattern, t))])
         ELSE RateRows(T, pattern, t - 1)

Rates(T, pattern) == [kind |-> "series", c |-> <<0, 1>>, s |-> RateRows(T, pattern, MaxLen + 1)]

\* annualized scalars 0 and 126 (a daily rate of 1/2), and dated series
RiskFreeInputs ==
    {Scalar(<<0, 1>>), Scalar(<<126, 1>>)}
        \cup {Rates(T, pattern) : T \in SUBSET (2..(MaxLen + 1)), pattern \in {"flat", "alt"}}

RiskFreeTableInputs ==
    {Scalar(<<0, 1>>), Scalar(<<126, 1>>), Rates(2..(MaxLen + 1), "alt"), Rates({2}, "flat")}

-----------------------------------------------------------------------------
(* One call of one calculator: inp is the argument, out the outcome.       *)
(* raised names the exception the call ended with ("none": it returned).   *)

NoCall == [op |-> "none", raised |-> "none"]

Returned(op, rf, conf, val) ==
    [op |-> op, raised |-> "none", rf |-> rf, conf |-> conf, val |-> val]

NoRf == Scalar(<<0, 1>>)

NoConf == <<0, 1>>

InitCalc ==
    /\ inp \in [kind : {"prices"}, s : PriceSeriesInputs]
            \cup [kind : {"returns"}, s : ReturnSeriesInputs]
            \cup [kind : {"price_table"}, df : PriceTableInputs]
    /\ out = NoCall
    /\ data = <<>> /\ metrics = <<>> /\ result = <<>> /\ computed = 0
    /\ pf = <<>> /\ pfin = <<>> /\ pfout = <<>>

OthersUnchanged == UNCHANGED <<data, metrics, result, computed, pf, pfin, pfout>>

Ready(kind) == out = NoCall /\ inp.kind = kind

CallReturns ==
    /\ Ready("prices")
    /\ out' = Returned("calculate_returns", NoRf, NoConf, calculate_returns(inp.s))
    /\ UNCHANGED inp /\ OthersUnchanged

CallSharpe ==
    /\ Ready("returns")
    /\ \E rf \in RiskFreeInputs :
         out' = Returned("calculate_sharpe_ratio", rf, NoConf,
                         calculate_sharpe_ratio(inp.s, rf, PeriodsPerYear))
    /\ UNCHANGED inp /\ OthersUnchanged

CallSortino ==
    /\ Ready("returns")
    /\ \E rf \in RiskFreeInputs :
         out' = Returned("calculate_sortino_ratio", rf, NoConf,
                         calculate_sortino_ratio(inp.s, rf, PeriodsPerYear))
    /\ UNCHANGED inp /\ OthersUnchanged

CallVolatility ==
    /\ Ready("returns")
    /\ out' = Returned("calculate_volatility", NoRf, NoConf,
                       calculate_volatility(inp.s, PeriodsPerYear))
    /\ UNCHANGED inp /\ OthersUnchanged

CallMaxDrawdown ==
    /\ Ready("prices")
    /\ out' = Returned("calculate_max_drawdown", NoRf, NoConf, calculate_max_drawdown(inp.s))
    /\ UNCHANGED inp /\ OthersUnchanged

CallVar ==
    /\ Ready("returns")
    /\ \E c \in ConfidenceInputs :
         out' = Returned("calculate_var", NoRf, c, calculate_var(inp.s, c))
    /\ UNCHANGED inp /\ OthersUnchanged

CallCVar ==
    /\ Ready("returns")
    /\ \E c \in ConfidenceInputs :
         out' = Returned("calculate_cvar", NoRf, c, calculate_cvar(inp.s, c))
    /\ UNCHANGED inp /\ OthersUnchanged

CallSemiDeviation ==
    /\ Ready("returns")
    /\ out' = Returned("calculate_semi_deviation", NoRf, NoConf,
                       calculate_semi_deviation(inp.s, PeriodsPerYear))
    /\ UNCHANGED inp /\ OthersUnchanged

CallUlcerIndex ==
    /\ Ready("prices")
    /\ out' = Returned("calculate_ulcer_index", NoRf, NoConf, calculate_ulcer_index(inp.s))
    /\ UNCHANGED inp /\ OthersUnchanged

CallMad ==
    /\ Ready("returns")
    /\ out' = Returned("calculate_mad", NoRf, NoConf, calculate_mad(inp.s))
    /\ UNCHANGED inp /\ OthersUnchanged

\* The table forms.  A table of returns is calculate_returns of a price table,
\* as calculate_all_metrics (custom_metrics.py 267-268) builds it.

CallReturnsDf ==
    /\ Ready("price_table")
    /\ out' = Returned("calculate_returns_df", NoRf, NoConf, calculate_returns_df(inp.df))
    /\ UNCHANGED inp /\ OthersUnchanged

CallSharpeDf ==
    /\ Ready("price_table")
    /\ \E rf \in RiskFreeTableInputs :
         out' = Returned("calculate_sharpe_ratio_df", rf, NoConf,
                    calculate_sharpe_ratio_df(calculate_returns_df(inp.df), rf, PeriodsPerYear))
    /\ UNCHANGED inp /\ OthersUnchanged

CallSortinoDf ==
    /\ Ready("price_table")
    /\ \E rf \in RiskFreeTableInputs :
         out' = Returned("calculate_sortino_ratio_df", rf, NoConf,
                    calculate_sortino_ratio_df(calculate_returns_df(inp.df), rf, PeriodsPerYear))
    /\ UNCHANGED inp /\ OthersUnchanged

CallVolatilityDf ==
    /\ Ready("price_table")
    /\ out' = Returned("calculate_volatility_df", NoRf, NoConf,
                  calculate_volatility_df(calculate_returns_df(inp.df), PeriodsPerYear))
    /\ UNCHANGED inp /\ OthersUnchanged

CallMaxDrawdownDf ==
    /\ Ready("price_table")
    /\ out' = Returned("calculate_max_drawdown_df", NoRf, NoConf,
                  calculate_max_drawdown_df(inp.df))
    /\ UNCHANGED inp /\ OthersUnchanged

CallVarDf ==
    /\ Ready("price_table")
    /\ \E c \in ConfidenceInputs :
         out' = Returned("calculate_var_df", NoRf, c,
                    calculate_var_df(calculate_returns_df(inp.df), c))
    /\ UNCHANGED inp /\ OthersUnchanged

CallCVarDf ==
    /\ Ready("price_table")
    /\ \E c \in ConfidenceInputs :
         out' = Returned("calculate_cvar_df", NoRf, c,
                    calculate_cvar_df(calculate_returns_df(inp.df), c))
    /\ UNCHANGED inp /\ OthersUnchanged

CallSemiDeviationDf ==
    /\ Ready("price_table")
    /\ out' = Returned("calculate_semi_deviation_df", NoRf, NoConf,
                  calculate_semi_deviation_df(calculate_returns_df(inp.df), PeriodsPerYear))
    /\ UNCHANGED inp /\ OthersUnchanged

CallUlcerIndexDf ==
    /\ Ready("price_table")
    /\ out' = Returned("calculate_ulcer_index_df", NoRf, NoConf,
                  calculate_ulcer_index_df(inp.df))
    /\ UNCHANGED inp /\ OthersUnchanged

CallMadDf ==
    /\ Ready("price_table")
    /\ out' = Returned("calculate_mad_df", NoRf, NoConf,
                  calculate_mad_df(calculate_returns_df(inp.df)))
    /\ UNCHANGED inp /\ OthersUnchanged

NextCalc ==
    \/ CallReturns
    \/ CallSharpe
    \/ CallSortino
    \/ CallVolatility
    \/ CallMaxDrawdown
    \/ CallVar
    \/ CallCVar
    \/ CallSemiDeviation
    \/ CallUlcerIndex
    \/ CallMad
    \/ CallReturnsDf
    \/ CallSharpeDf
    \/ CallSortinoDf
    \/ CallVolatilityDf
    \/ CallMaxDrawdownDf
    \/ CallVarDf
    \/ CallCVarDf
    \/ CallSemiDeviationDf
    \/ CallUlcerIndexDf
    \/ CallMadDf

SpecCalc == InitCalc /\ [][NextCalc]_vars

-----------------------------------------------------------------------------
(* Properties of the calculators, checked under SpecCalc.                  *)

Called(op) == out.op = op

\* the returns the table forms are applied to
TableReturns == calculate_returns_df(inp.df)

\* the values of a series of rationals, as a function on its positions
Values(s) == [i \in 1..Len(s) |-> s[i].v.v]

NegativeCount(s) == Cardinality({i \in 1..Len(s) : Values(s)[i][1] < 0})

NegativesAllEqual(s) ==
    \A i, j \in 1..Len(s) :
        (Values(s)[i][1] < 0 /\ Values(s)[j][1] < 0) => Values(s)[i] = Values(s)[j]

ZeroVariance(s) == \A i, j \in 1..Len(s) : Values(s)[i] = Values(s)[j]

RECURSIVE SumOver(_, _)
SumOver(x, I) ==
    IF I = {} THEN <<0, 1>>
    ELSE LET i == CHOOSE j \in I : TRUE
         IN  RAdd(x[i], SumOver(x, I \ {i}))

\* the k-th smallest of the values x (k from 1): fewer than k values lie
\* strictly below it and at least k lie at or below it
OrderStatistic(x, k) ==
    CHOOSE v \in {x[i] : i \in DOMAIN x} :
        /\ Cardinality({i \in DOMAIN x : RLt(x[i], v)}) < k
        /\ Cardinality({i \in DOMAIN x : RLe(x[i], v)}) >= k

\* the empirical q-quantile of the non-empty values x by linear interpolation
\* between the two order statistics around position (n-1)q
LinearQuantile(x, q) ==
    LET n    == Len(x)
        h    == RMul(RInt(n - 1), q)
        lo   == RFloor(h)
        frac == RSub(h, RInt(lo))
        a    == OrderStatistic(x, lo + 1)
        b    == OrderStatistic(x, IF lo + 2 > n THEN n ELSE lo + 2)
    IN  RAdd(RMul(RSub(<<1, 1>>, frac), a), RMul(frac, b))

C3_ReturnsAreSimpleReturns ==
    (Called("calculate_returns") /\ Len(inp.s) >= 2) =>
        /\ Len(out.val) = Len(inp.s) - 1
        /\ \A k \in 1..(Len(inp.s) - 1) :
              /\ out.val[k].t = inp.s[k + 1].t
              /\ out.val[k].v =
                    Num(RDiv(RSub(Values(inp.s)[k + 1], Values(inp.s)[k]), Values(inp.s)[k]))
        /\ inp.s[1].t \notin IdxSet(out.val)
        /\ \A k \in 1..Len(out.val) : ~IsNaN(out.val[k].v)

C3_Witness ==
    /\ Called("calculate_returns") /\ Len(inp.s) = 3 /\ Len(out.val) = 2
    /\ out.val[1].v # out.val[2].v

\* C4 as stated: for a return series of at least 2 equal observations and any
\* risk-free input, calculate_sharpe_ratio is NaN, never infinite.
C4_ZeroVarianceSharpeIsNaN ==
    (Called("calculate_sharpe_ratio") /\ Len(inp.s) >= 2 /\ ZeroVariance(inp.s))
        => IsNaN(out.val)

\* C5: with fewer than 2 strictly negative observations Sortino and
\* semi-deviation are NaN, and Sortino is NaN too when the negative
\* observations are all equal; for a series and for each column of a table.
C5_NoDownsideIsNaN ==
    /\ (Called("calculate_sortino_ratio")
            /\ (NegativeCount(inp.s) < 2 \/ NegativesAllEqual(inp.s)))
          => IsNaN(out.val)
    /\ (Called("calculate_semi_deviation") /\ NegativeCount(inp.s) < 2)
          => IsNaN(out.val)
    /\ Called("calculate_sortino_ratio_df") =>
          \A c \in ColSet(inp.df) :
              LET col == Column(TableReturns, c)
              IN  (NegativeCount(col) < 2 \/ NegativesAllEqual(col)) => IsNaN(out.val[c])
    /\ Called("calculate_semi_deviation_df") =>
          \A c \in ColSet(inp.df) :
              NegativeCount(Column(TableReturns, c)) < 2 => IsNaN(out.val[c])

\* two equal losses and a gain: a downside deviation of exactly 0
C5_Witness ==
    /\ Called("calculate_sortino_ratio")
    /\ NegativeCount(inp.s) = 2 /\ NegativesAllEqual(inp.s) /\ ~ZeroVariance(inp.s)
    /\ IsNaN(out.val)

\* C6: for at least 2 positive prices calculate_max_drawdown is a number <= 0
\* and calculate_ulcer_index a number >= 0.
C6_DrawdownSigns ==
    /\ (Called("calculate_max_drawdown") /\ Len(inp.s) >= 2)
          => (out.val.k = "num" /\ RLe(out.val.v, <<0, 1>>))
    /\ (Called("calculate_ulcer_index") /\ Len(inp.s) >= 2)
          => (out.val.k = "root" /\ out.val.s >= 0 /\ RLe(<<0, 1>>, out.val.v))

C6_Witness ==
    /\ Called("calculate_max_drawdown") /\ Len(inp.s) >= 3
    /\ out.val.k = "num" /\ RLt(out.val.v, <<0, 1>>)

\* C7 as stated: whenever some price is lower than an earlier price, the drop
\* from the first price included, calculate_max_drawdown is strictly negative.
C7_AnyFallIsNegativeDrawdown ==
    (Called("calculate_max_drawdown")
        /\ \E i, j \in 1..Len(inp.s) : i < j /\ RLt(Values(inp.s)[j], Values(inp.s)[i]))
        => (out.val.k = "num" /\ RLt(out.val.v, <<0, 1>>))

\* C8: calculate_var of a non-empty return series is the empirical
\* (1-c)-quantile by linear interpolation between adjacent order statistics,
\* and the table form gives that value for each column.
C8_VarIsLinearQuantile ==
    /\ (Called("calculate_var") /\ Len(inp.s) >= 1)
          => out.val = Num(LinearQuantile(Values(inp.s), RSub(<<1, 1>>, out.conf)))
    /\ (Called("calculate_var_df") /\ Len(TableReturns.idx) >= 1) =>
          \A c \in ColSet(inp.df) :
              out.val[c] = Num(LinearQuantile(Values(Column(TableReturns, c)),
                                              RSub(<<1, 1>>, out.conf)))

\* the 5th percentile falls strictly between two order statistics
C8_Witness ==
    /\ Called("calculate_var") /\ out.conf = <<19, 20>> /\ Len(inp.s) = 3
    /\ \A i \in 1..Len(inp.s) : out.val.v # Values(inp.s)[i]

\* C9: calculate_cvar of a non-empty return series is the mean of the returns
\* that are <= calculate_var, there is such a return, and so CVaR <= VaR; the
\* same for each column of a table.
C9_CVarIsTailMean ==
    /\ (Called("calculate_cvar") /\ Len(inp.s) >= 1) =>
          LET var  == calculate_var(inp.s, out.conf)
              tail == {i \in 1..Len(inp.s) : RLe(Values(inp.s)[i], var.v)}
          IN  /\ tail # {}
              /\ out.val = Num(RDiv(SumOver(Values(inp.s), tail), RInt(Cardinality(tail))))
              /\ FLe(out.val, var)
    /\ (Called("calculate_cvar_df") /\ Len(TableReturns.idx) >= 1) =>
          \A c \in ColSet(inp.df) :
              FLe(out.val[c], calculate_var(Column(TableReturns, c), out.conf))

\* a tail of more than one return, strictly below VaR on average
C9_Witness ==
    /\ Called("calculate_cvar") /\ Len(inp.s) = 3
    /\ Cardinality({i \in 1..3 : RLe(Values(inp.s)[i], calculate_var(inp.s, out.conf).v)}) = 2
    /\ out.val.k = "num"
    /\ RLt(out.val.v, calculate_var(inp.s, out.conf).v)

\* the value of a dated series at a timestamp it holds
ValueAt(s, t) == s[CHOOSE j \in 1..Len(s) : s[j].t = t].v.v

\* the timestamps present in both the returns and the rates of the call
CommonDates == IdxSet(inp.s) \cap IdxSet(out.rf.s)

\* the rows of a series on the timestamps T, in date order
RECURSIVE Restricted(_, _, _)
Restricted(s, T, t) ==
    IF t = 0 THEN <<>>
    ELSE IF t \in T
         THEN Append(Restricted(s, T, t - 1), [t |-> t, v |-> Num(ValueAt(s, t))])
         ELSE Restricted(s, T, t - 1)

\* return minus rate on every common timestamp, in date order
RECURSIVE CommonExcess(_, _, _)
CommonExcess(r, f, t) ==
    IF t = 0 THEN <<>>
    ELSE IF t \in IdxSet(r) \cap IdxSet(f)
         THEN Append(CommonExcess(r, f, t - 1),
                     [t |-> t, v |-> Num(RSub(ValueAt(r, t), ValueAt(f, t)))])
         ELSE CommonExcess(r, f, t - 1)

\* C16: with a dated rate series, the excess returns Sharpe and Sortino work
\* on have exactly the timestamps present in both the returns and the rates
\* (as many rows as the intersection has dates: no row is imputed for a date
\* held by one side only, and nothing is raised), each value is the return
\* minus the rate of that date, and the ratio returned is the one computed
\* from that series.
C16_ExcessOnCommonDates ==
    ((Called("calculate_sharpe_ratio") \/ Called("calculate_sortino_ratio"))
        /\ out.rf.kind = "series") =>
        LET excess   == ExcessReturns(inp.s, out.rf, PeriodsPerYear)
            expected == CommonExcess(inp.s, out.rf.s, MaxLen + 1)
        IN  /\ out.raised = "none"
            /\ IdxSet(excess) = CommonDates
            /\ Len(excess) = Cardinality(CommonDates)
            /\ excess = expected
            /\ Called("calculate_sharpe_ratio") =>
                 out.val = SqrtTimesOver(PeriodsPerYear, mean(expected), std(expected))
            /\ Called("calculate_sortino_ratio") =>
                 out.val = SortinoOf(expected, Restricted(inp.s, CommonDates, MaxLen + 1),
                                     PeriodsPerYear)

\* returns on three dates, rates on two of them: a defined Sharpe ratio over
\* the two common dates
C16_Witness ==
    /\ Called("calculate_sharpe_ratio") /\ out.rf.kind = "series"
    /\ Len(inp.s) = 3 /\ Cardinality(CommonDates) = 2
    /\ IsFinite(out.val)

\* C17: when the dated rate series shares no timestamp with the returns,
\* calculate_sharpe_ratio and calculate_sortino_ratio raise nothing and
\* return NaN, for a single series and for every asset of a table.
C17_NoCommonDateIsNaN ==
    /\ ((Called("calculate_sharpe_ratio") \/ Called("calculate_sortino_ratio"))
            /\ out.rf.kind = "series" /\ CommonDates = {})
          => (out.raised = "none" /\ IsNaN(out.val))
    /\ ((Called("calculate_sharpe_ratio_df") \/ Called("calculate_sortino_ratio_df"))
            /\ out.rf.kind = "series"
            /\ {TableReturns.idx[i] : i \in 1..Len(TableReturns.idx)} \cap IdxSet(out.rf.s) = {})
          => (out.raised = "none" /\ \A c \in ColSet(inp.df) : IsNaN(out.val[c]))

\* returns that vary, rates on a later date only, and a NaN Sharpe ratio
C17_Witness ==
    /\ Called("calculate_sharpe_ratio") /\ out.rf.kind = "series"
    /\ Len(inp.s) >= 2 /\ ~ZeroVariance(inp.s)
    /\ out.rf.s # <<>> /\ CommonDates = {}
    /\ out.raised = "none" /\ IsNaN(out.val)

\* the excess returns as the claim defines them: return minus the rate of the
\* same date on the common dates, or return minus risk_free / periods_per_year
\* at every timestamp
ClaimedExcess ==
    IF out.rf.kind = "series"
    THEN CommonExcess(inp.s, out.rf.s, MaxLen + 1)
    ELSE [i \in 1..Len(inp.s) |->
            [t |-> inp.s[i].t,
             v |-> Num(RSub(inp.s[i].v.v, RDiv(out.rf.c, RInt(PeriodsPerYear))))]]

\* the raw returns on the dates the excess returns cover
AlignedRaw ==
    IF out.rf.kind = "series"
    THEN Restricted(inp.s, CommonDates, MaxLen + 1)
    ELSE inp.s

\* C20 as stated: for a scalar and for a dated risk-free input alike,
\* calculate_sharpe_ratio is sqrt(periods_per_year) * mean(excess returns)
\* / std(raw aligned returns).
C20_SharpeOverRawStd ==
    Called("calculate_sharpe_ratio") =>
        out.val = SqrtTimesOver(PeriodsPerYear, mean(ClaimedExcess), std(AlignedRaw))

\* C20 amended: calculate_sharpe_ratio is sqrt(periods_per_year) *
\* mean(excess returns) / d, where with a scalar input the rate subtracted at
\* every timestamp is risk_free / periods_per_year and d is the standard
\* deviation of the raw returns, and with a dated rate series d is the
\* standard deviation of the excess returns over the common dates.
C20_SharpeOverExcessStdForSeries ==
    Called("calculate_sharpe_ratio") =>
        out.val = SqrtTimesOver(PeriodsPerYear, mean(ClaimedExcess),
                                IF out.rf.kind = "series"
                                THEN std(ClaimedExcess) ELSE std(AlignedRaw))

\* dated rates that vary over the common dates: the excess returns and the
\* raw returns have different standard deviations
C20_Witness ==
    /\ Called("calculate_sharpe_ratio") /\ out.rf.kind = "series"
    /\ Cardinality(CommonDates) >= 2
    /\ std(ClaimedExcess) # std(AlignedRaw)
    /\ IsFinite(out.val)

TableCalls ==
    {"calculate_sharpe_ratio_df", "calculate_sortino_ratio_df", "calculate_volatility_df",
     "calculate_max_drawdown_df", "calculate_var_df", "calculate_cvar_df",
     "calculate_semi_deviation_df", "calculate_ulcer_index_df", "calculate_mad_df"}

\* what the calculator behind a table call returns for one series alone
AloneValue(op, returns, prices, rf, conf) ==
    CASE op = "calculate_sharpe_ratio_df" -> calculate_sharpe_ratio(returns, rf, PeriodsPerYear)
      [] op = "calculate_sortino_ratio_df" -> calculate_sortino_ratio(returns, rf, PeriodsPerYear)
      [] op = "calculate_volatility_df" -> calculate_volatility(returns, PeriodsPerYear)
      [] op = "calculate_max_drawdown_df" -> calculate_max_drawdown(prices)
      [] op = "calculate_var_df" -> calculate_var(returns, conf)
      [] op = "calculate_cvar_df" -> calculate_cvar(returns, conf)
      [] op = "calculate_semi_deviation_df" -> calculate_semi_deviation(returns, PeriodsPerYear)
      [] op = "calculate_ulcer_index_df" -> calculate_ulcer_index(prices)
      [] op = "calculate_mad_df" -> calculate_mad(returns)

\* C15: for every calculator applied to a two-asset table, the result has one
\* value per asset column, and the value of a column is the value the same
\* calculator returns for that column alone as a single series; the column of
\* the returns table is itself the returns of that asset's prices alone, so
\* the other asset's column has no part in the value.
C15_ColumnValueIsSingleSeriesValue ==
    out.op \in TableCalls =>
        /\ DOMAIN out.val = ColSet(inp.df)
        /\ \A c \in ColSet(inp.df) :
             /\ Column(TableReturns, c) = calculate_returns(Column(inp.df, c))
             /\ out.val[c] = AloneValue(out.op, Column(TableReturns, c),
                                        Column(inp.df, c), out.rf, out.conf)

\* a CVaR over a table whose two columns have different, defined values
C15_Witness ==
    /\ Called("calculate_cvar_df")
    /\ Len(inp.df.idx) = MaxRows
    /\ IsFinite(out.val["A"]) /\ IsFinite(out.val["B"])
    /\ out.val["A"] # out.val["B"]

\* the rows of the returns s a risk-free input covers: all of them for a
\* scalar, those on a date of the rates for a dated series
Covered(s, rf) == {i \in 1..Len(s) : rf.kind = "series" => s[i].t \in IdxSet(rf.s)}

\* the covered rows whose raw return is below 0
RawDownside(s, rf) == {i \in Covered(s, rf) : Values(s)[i][1] < 0}

\* the rate a risk-free input sets against the return of row i
RateFor(s, rf, i) ==
    IF rf.kind = "series" THEN ValueAt(rf.s, s[i].t) ELSE RDiv(rf.c, RInt(PeriodsPerYear))

\* the covered rows whose excess return is below 0
ExcessDownside(s, rf) ==
    {i \in Covered(s, rf) : RLt(Values(s)[i], RateFor(s, rf, i))}

\* mean of the values x over the non-empty index set I
SetMean(x, I) == RDiv(SumOver(x, I), RInt(Cardinality(I)))

\* sample variance of the values x over an index set I of at least 2
SetVariance(x, I) ==
    LET m == SetMean(x, I)
    IN  RDiv(SumOver([i \in I |-> RMul(RSub(x[i], m), RSub(x[i], m))], I),
             RInt(Cardinality(I) - 1))

\* the sample standard deviation of the raw returns of the downside rows
DownsideDeviation(s, rf) ==
    IF Cardinality(RawDownside(s, rf)) < 2 THEN NaN
    ELSE Root(1, SetVariance(Values(s), RawDownside(s, rf)))

\* the mean of return minus rate over the covered rows
ExcessMean(s, rf) ==
    IF Covered(s, rf) = {} THEN NaN
    ELSE Num(SetMean([i \in Covered(s, rf) |-> RSub(Values(s)[i], RateFor(s, rf, i))],
                     Covered(s, rf)))

\* the Sortino ratio of returns s whose numerator comes from the input rf and
\* whose downside deviation is d
SortinoWith(s, rf, d) ==
    IF ~IsNaN(d) /\ d.v[1] > 0
    THEN SqrtTimesOver(PeriodsPerYear, ExcessMean(s, rf), d)
    ELSE NaN

\* C21: calculate_sortino_ratio takes its downside deviation from the rows
\* whose raw return is below 0 (among the rows on a date of the rates, when
\* the rates are dated), not from the rows whose excess return is below 0;
\* the risk-free input enters the numerator only, so another risk-free input
\* covering the same rows gives a ratio over the same downside deviation.
\* The same for each column of a table.
C21_DownsideOnRawReturns ==
    /\ Called("calculate_sortino_ratio") =>
          LET d == DownsideDeviation(inp.s, out.rf)
          IN  /\ out.val = SortinoWith(inp.s, out.rf, d)
              /\ \A rf2 \in RiskFreeTableInputs :
                    Covered(inp.s, rf2) = Covered(inp.s, out.rf) =>
                       calculate_sortino_ratio(inp.s, rf2, PeriodsPerYear)
                          = SortinoWith(inp.s, rf2, d)
    /\ Called("calculate_sortino_ratio_df") =>
          \A c \in ColSet(inp.df) :
              LET col == Column(TableReturns, c)
              IN  out.val[c] = SortinoWith(col, out.rf, DownsideDeviation(col, out.rf))

\* a daily rate of 1/2 that puts a raw return of 0 below the rate: the rows
\* of negative excess are not the rows of negative return, the ratio is a
\* number, and a zero rate gives another ratio over the same rows
C21_Witness ==
    /\ Called("calculate_sortino_ratio") /\ out.rf = Scalar(<<126, 1>>)
    /\ IsFinite(out.val)
    /\ ExcessDownside(inp.s, out.rf) # RawDownside(inp.s, out.rf)
    /\ calculate_sortino_ratio(inp.s, Scalar(<<0, 1>>), PeriodsPerYear) # out.val
    /\ IsFinite(calculate_sortino_ratio(inp.s, Scalar(<<0, 1>>), PeriodsPerYear))

\* the fractional change from price s to price t of the called series
Change(s, t) ==
    RDiv(RSub(Values(inp.s)[t], Values(inp.s)[s]), Values(inp.s)[s])

\* C25: calculate_max_drawdown of a series of at least 2 prices is the
\* minimum over all index pairs s <= t, s ranging over every price including
\* the first, of (p[t] - p[s]) / p[s]: a fall from the first price counts
\* like any other.
C25_DrawdownOverAllPeaks ==
    (Called("calculate_max_drawdown") /\ Len(inp.s) >= 2) =>
        out.val = Num(MinR({Change(x[1], x[2]) :
                              x \in {y \in (1..Len(inp.s)) \X (1..Len(inp.s)) : y[1] <= y[2]}}))

\* the smallest value of a non-empty series of numbers
Smallest(s) == MinR({Values(s)[i] : i \in 1..Len(s)})

\* C27: for a non-empty return series and a confidence c strictly between 0
\* and 1 the minimum return is <= calculate_var(returns, c), so the tail
\* calculate_cvar averages is not empty and CVaR is a number; calculate_cvar
\* is NaN only for an empty return series, for a series and for each column
\* of a table.
C27_CVarDefinedUnlessEmpty ==
    /\ (Called("calculate_cvar") /\ Len(inp.s) >= 1
            /\ RLt(<<0, 1>>, out.conf) /\ RLt(out.conf, <<1, 1>>)) =>
          /\ FLe(Num(Smallest(inp.s)), calculate_var(inp.s, out.conf))
          /\ out.val.k = "num"
          /\ RLe(Smallest(inp.s), out.val.v)
    /\ (Called("calculate_cvar") /\ IsNaN(out.val)) => Len(inp.s) = 0
    /\ Called("calculate_cvar_df") =>
          \A c \in ColSet(inp.df) : IsNaN(out.val[c]) <=> Len(TableReturns.idx) = 0

\* three returns at 95%: VaR lies strictly between the two lowest returns,
\* and the lowest return alone is the tail
C27_Witness ==
    /\ Called("calculate_cvar") /\ Len(inp.s) = 3 /\ out.conf = <<19, 20>>
    /\ RLt(Smallest(inp.s), calculate_var(inp.s, out.conf).v)
    /\ out.val = Num(Smallest(inp.s))

-----------------------------------------------------------------------------
(* risk_metrics.py: IbovespaRiskAnalyzer.                                  *)

None == [none |-> TRUE]

Range(f) == {f[i] : i \in DOMAIN f}

\* a Python dict, which keeps the order in which its keys were first set
EmptyDict == [keys |-> <<>>, tab |-> <<>>]

\* a dict that puts a new key in front of the others
DictSet_prepend(d, key, value) ==
    [keys |-> IF key \in Range(d.keys) THEN d.keys ELSE <<key>> \o d.keys,
     tab  |-> [x \in Range(d.keys) \cup {key} |-> IF x = key THEN value ELSE d.tab[x]]]

DictSet(d, key, value) ==
    [keys |-> IF key \in Range(d.keys) THEN d.keys ELSE Append(d.keys, key),
     tab  |-> [x \in Range(d.keys) \cup {key} |-> IF x = key THEN value ELSE d.tab[x]]]

\* self.tickers, as the scripts construct the analyzer
Tickers == <<"A.SA", "B.SA">>

\* ticker.replace('.SA', '')
CleanName(ticker) == IF ticker = "A.SA" THEN "A" ELSE "B"

\* most rows the price source returns
MaxDays == 2

RECURSIVE Pow2(_)
Pow2(n) == IF n = 0 THEN 1 ELSE 2 * Pow2(n - 1)

\* The closing prices the source returns, by the shape of the period: in a
\* "rise" A doubles every day and B moves between 2 and 1; in a "fall" A
\* halves every day and B stays at 1.
ClosePrice(shape, ticker, day) ==
    IF shape = "rise"
    THEN (IF ticker = "A.SA" THEN Pow2(day - 1) ELSE (IF day % 2 = 1 THEN 2 ELSE 1))
    ELSE (IF ticker = "A.SA" THEN Pow2(MaxDays + 1 - day) ELSE 1)

\* what sq.download_tickers returns: "<ticker>_Close" for the tickers it found
RawData(found, days, shape) ==
    [found |-> found, idx |-> [i \in 1..days |-> i],
     close |-> [tk \in found |-> [i \in 1..days |-> Num(<<ClosePrice(shape, tk, i), 1>>)]]]

RawDataInputs ==
    {RawData(found, days, shape) :
        found \in SUBSET Range(Tickers), days \in 0..MaxDays, shape \in {"rise", "fall"}}

\* lines 88-94: the columns of the tickers found, in the order of self.tickers
RECURSIVE CleanColumns(_, _)
CleanColumns(raw_data, i) ==
    IF i = 0 THEN <<>>
    ELSE IF Tickers[i] \in raw_data.found
         THEN Append(CleanColumns(raw_data, i - 1), CleanName(Tickers[i]))
         ELSE CleanColumns(raw_data, i - 1)

Reorganize(raw_data) ==
    [idx |-> raw_data.idx,
     columns |-> CleanColumns(raw_data, Len(Tickers)),
     val |-> [c \in {CleanName(tk) : tk \in raw_data.found} |->
                raw_data.close[CHOOSE tk \in raw_data.found : CleanName(tk) = c]]]

\* di_data: None, or a table with the columns named and the daily rates
DiTable(columns, rates) == [columns |-> columns, rates |-> rates]

DiDataInputs ==
    {None,
     DiTable({"di_daily_rate"}, Rates(1..(MaxDays + 1), "alt")),
     DiTable({"di_daily_rate"}, Rates({2}, "flat")),
     DiTable({"selic"}, Rates({2}, "flat"))}

\* lines 122-127
RiskFreeRate(di_data) ==
    IF di_data # None /\ "di_daily_rate" \in di_data.columns
    THEN di_data.rates
    ELSE Scalar(<<0, 1>>)

\* pd.DataFrame({col: [f(col)] for col in self.data.columns}, index=['value'])
OneRow(columns, f) == [columns |-> columns, val |-> [c \in Range(columns) |-> f[c]]]

\* lines 129-167: the nine assignments to self.metrics, in the code's order
ComputedMetrics(old, df, risk_free_rate) ==
    LET returns == calculate_returns_df(df)
        cols    == Range(df.columns)
        Sharpe  == [c \in cols |-> calculate_sharpe_ratio(Column(returns, c), risk_free_rate, PeriodsPerYear)]
        Sortino == [c \in cols |-> calculate_sortino_ratio(Column(returns, c), risk_free_rate, PeriodsPerYear)]
        Vol     == [c \in cols |-> calculate_volatility(Column(returns, c), PeriodsPerYear)]
        Mdd     == [c \in cols |-> calculate_max_drawdown(Column(df, c))]
        Var     == [c \in cols |-> calculate_var(Column(returns, c), <<19, 20>>)]
        CVar    == [c \in cols |-> calculate_cvar(Column(returns, c), <<19, 20>>)]
        SemiDev == [c \in cols |-> calculate_semi_deviation(Column(returns, c), PeriodsPerYear)]
        Ulcer   == [c \in cols |-> calculate_ulcer_index(Column(df, c))]
        Mad     == [c \in cols |-> calculate_mad(Column(returns, c))]
        m1 == DictSet(old, "sharpe", OneRow(df.columns, Sharpe))
        m2 == DictSet(m1, "sortino", OneRow(df.columns, Sortino))
        m3 == DictSet(m2, "volatility", OneRow(df.columns, Vol))
        m4 == DictSet(m3, "max_drawdown", OneRow(df.columns, Mdd))
        m5 == DictSet(m4, "var", OneRow(df.columns, Var))
        m6 == DictSet(m5, "cvar", OneRow(df.columns, CVar))
        m7 == DictSet(m6, "semidev", OneRow(df.columns, SemiDev))
        m8 == DictSet(m7, "ulcer", OneRow(df.columns, Ulcer))
    IN  DictSet(m8, "mad", OneRow(df.columns, Mad))

\* the summary with every NaN replaced by zero (a fillna(0))
Summary_fillna(m) ==
    [index   |-> m.tab[m.keys[1]].columns,
     columns |-> m.keys,
     val     |-> [k \in Range(m.keys) |->
                    [c \in DOMAIN m.tab[k].val |->
                        IF IsNaN(m.tab[k].val[c]) THEN Num(<<0, 1>>) ELSE m.tab[k].val[c]]]]

\* lines 182-188: pd.DataFrame(results) of the first (only) row of every
\* metric: one column per metric name, indexed by asset
Summary(m) ==
    [index   |-> m.tab[m.keys[1]].columns,
     columns |-> m.keys,
     val     |-> [k \in Range(m.keys) |-> m.tab[k].val]]

NoResult == [op |-> "none", raised |-> "none", val |-> <<>>]

Outcome(op, raised, val) == [op |-> op, raised |-> raised, val |-> val]

InitAnalyzer ==
    /\ data = None
    /\ metrics = EmptyDict
    /\ result = NoResult
    /\ computed = FALSE
    /\ inp = <<>> /\ out = <<>>
    /\ pf = <<>> /\ pfin = <<>> /\ pfout = <<>>

AnalyzerFrame == UNCHANGED <<inp, out, pf, pfin, pfout>>

\* download_data(): the source answers, and self.data is replaced
download_data ==
    /\ \E raw_data \in RawDataInputs : data' = Reorganize(raw_data)
    /\ result' = Outcome("download_data", "none", <<>>)
    /\ UNCHANGED <<metrics, computed>>
    /\ AnalyzerFrame

\* download_data(): the source raises before self.data is assigned
download_data_fails ==
    /\ result' = Outcome("download_data", "DownloadError", <<>>)
    /\ UNCHANGED <<data, metrics, computed>>
    /\ AnalyzerFrame

\* calculate_all_metrics with the data check made after the first metric is
\* stored: the failing call leaves a "sharpe" entry behind
calculate_all_metrics_late_check ==
    /\ \E di_data \in DiDataInputs :
         IF data = None
         THEN /\ result' = Outcome("calculate_all_metrics", "ValueError: Data not downloaded", <<>>)
              /\ metrics' = DictSet(metrics, "sharpe", OneRow(<<>>, <<>>))
              /\ UNCHANGED computed
         ELSE /\ metrics' = ComputedMetrics(metrics, data, RiskFreeRate(di_data))
              /\ computed' = TRUE
              /\ result' = Outcome("calculate_all_metrics", "none", <<>>)
    /\ UNCHANGED data
    /\ AnalyzerFrame

\* calculate_all_metrics(window, di_data)
calculate_all_metrics ==
    /\ \E di_data \in DiDataInputs :
         IF data = None
         THEN /\ result' = Outcome("calculate_all_metrics", "ValueError: Data not downloaded", <<>>)
              /\ UNCHANGED <<metrics, computed>>
         ELSE /\ metrics' = ComputedMetrics(metrics, data, RiskFreeRate(di_data))
              /\ computed' = TRUE
              /\ result' = Outcome("calculate_all_metrics", "none", <<>>)
    /\ UNCHANGED data
    /\ AnalyzerFrame

\* get_latest_metrics with the guard "if self.metrics is None": an empty dict
\* passes it, and pd.DataFrame({}) is an empty summary
get_latest_metrics_none_guard ==
    /\ IF metrics.keys = <<>>
       THEN result' = Outcome("get_latest_metrics", "none",
                              [index |-> <<>>, columns |-> <<>>, val |-> <<>>])
       ELSE result' = Outcome("get_latest_metrics", "none", Summary(metrics))
    /\ UNCHANGED <<data, metrics, computed>>
    /\ AnalyzerFrame

\* get_latest_metrics()
get_latest_metrics ==
    /\ IF metrics.keys = <<>>
       THEN result' = Outcome("get_latest_metrics", "ValueError: Metrics not calculated", <<>>)
       ELSE result' = Outcome("get_latest_metrics", "none", Summary(metrics))
    /\ UNCHANGED <<data, metrics, computed>>
    /\ AnalyzerFrame

\* export_results(): get_latest_metrics, then the summary is written out
export_results ==
    /\ IF metrics.keys = <<>>
       THEN result' = Outcome("export_results", "ValueError: Metrics not calculated", <<>>)
       ELSE result' = Outcome("export_results", "none", Summary(metrics))
    /\ UNCHANGED <<data, metrics, computed>>
    /\ AnalyzerFrame

Next ==
    \/ download_data
    \/ download_data_fails
    \/ calculate_all_metrics
    \/ get_latest_metrics
    \/ export_results

Spec == InitAnalyzer /\ [][Next]_vars

-----------------------------------------------------------------------------
(* Properties of IbovespaRiskAnalyzer, checked under Spec.                 *)

\* C1: get_latest_metrics, called while no calculate_all_metrics has
\* completed (none was called, or each one failed for want of price data),
\* fails with the "Metrics not calculated" error and returns no summary.
C1_LatestBeforeComputeFails ==
    (result.op = "get_latest_metrics" /\ ~computed)
        => (result.raised = "ValueError: Metrics not calculated" /\ result.val = <<>>)

\* the price data is loaded, the metrics are not computed, and latest() failed
C1_Witness ==
    /\ result.op = "get_latest_metrics" /\ ~computed /\ data # None
    /\ result.raised = "ValueError: Metrics not calculated"

\* a step taken while no price data is loaded
StepWithoutData(op) == data = None /\ result'.op = op

\* C23: calculate_all_metrics called while data is None raises the "Data not
\* downloaded" error at once and changes nothing: data stays None and the
\* metrics stay empty; a get_latest_metrics (or export_results) called in
\* such a state fails with the "Metrics not calculated" error.
C23_ComputeWithoutDataChangesNothing ==
    [][/\ StepWithoutData("calculate_all_metrics") =>
            /\ result'.raised = "ValueError: Data not downloaded"
            /\ result'.val = <<>>
            /\ data' = None
            /\ metrics = EmptyDict /\ metrics' = EmptyDict
            /\ computed' = computed
       /\ (StepWithoutData("get_latest_metrics") \/ StepWithoutData("export_results")) =>
            /\ result'.raised = "ValueError: Metrics not calculated"
            /\ data' = None /\ metrics' = EmptyDict
      ]_vars

\* the failed call, after a download that failed too
C23_Witness ==
    /\ result.op = "calculate_all_metrics"
    /\ result.raised = "ValueError: Data not downloaded"
    /\ data = None /\ metrics = EmptyDict /\ ~computed

-----------------------------------------------------------------------------
(* portfolio_analysis.py: PortfolioAnalyzer.  A weight vector is a dict,   *)
(* here a function from its keys to rationals.                             *)

\* the assets a weight vector may name; "C" is in no price table
WeightAssets == {"A", "B", "C"}

\* 500001/1000000 makes sums that miss 1 by a millionth
WeightValues == {<<-1, 1>>, <<0, 1>>, <<1, 2>>, <<2, 1>>, <<500001, 1000000>>}

WeightInputs ==
    {None} \cup UNION {[K -> WeightValues] : K \in SUBSET WeightAssets}

\* a longer table that swings: A runs through 2, 1, 2, 4 and B through 1, 1, 2
SwingPrice(col, day) ==
    IF col = "A" THEN <<2, 1, 2, 4>>[((day - 1) % 4) + 1] ELSE <<1, 1, 2>>[((day - 1) % 3) + 1]

SwingTable ==
    [idx |-> [i \in 1..(MaxDays + 3) |-> i], columns |-> <<"A", "B">>,
     val |-> [c \in {"A", "B"} |-> [i \in 1..(MaxDays + 3) |-> Num(<<SwingPrice(c, i), 1>>)]]]

\* a table of one asset: the A column of the swinging table
SoloTable ==
    [idx |-> SwingTable.idx, columns |-> <<"A">>,
     val |-> [c \in {"A"} |-> SwingTable.val["A"]]]

\* the price tables a portfolio is built over; the last is the download in
\* which only B was found
PortfolioTables ==
    {Reorganize(RawData(Range(Tickers), days, shape)) :
        days \in {0, MaxDays + 1}, shape \in {"rise", "fall"}}
      \cup {SwingTable, SoloTable, Reorganize(RawData({"B.SA"}, MaxDays + 1, "rise"))}

\* The constructor's arguments: every weight vector over the empty table,
\* and over a table with prices the default and the vectors of weights -1,
\* 1/2 and 2.  A weight in millionths is supplied over the empty table only:
\* the statistics of a portfolio square its returns twice over, which
\* millionths carry out of the range of the arithmetic.  Over a table of one
\* asset the vectors name that asset and the unpriced C.
PortfolioInputs ==
    {x \in PortfolioTables \X WeightInputs :
        \/ Len(x[1].idx) = 0
        \/ x[2] = None
        \/ /\ \A k \in DOMAIN x[2] : x[2][k][2] <= 2 /\ x[2][k][1] # 0
           /\ Len(x[1].columns) = 1 => DOMAIN x[2] \subseteq ColSet(x[1]) \cup {"C"}}

\* sum(self.weights.values())
SumWeights(w) == SumOver(w, DOMAIN w)

\* np.isclose(a, b) with numpy's defaults rtol = 1e-05 and atol = 1e-08, for
\* b = 1.0: |a - b| <= atol + rtol * |b|
IsCloseTolerance == <<1001, 100000000>>

\* isclose as exact equality
isclose_exact(a, b) == a = b

\* e > 1e-9 for a non-negative rational e = n/d in lowest terms, i.e.
\* n * 10^9 > d, decided without forming a product beyond the integers' range
ExceedsNano(e) ==
    \/ e[1] >= 3
    \/ e[1] = 2 /\ e[2] < 2000000000
    \/ e[1] = 1 /\ e[2] < 1000000000

\* isclose with an absolute tolerance of 1e-9
isclose_atol9(a, b) == ~ExceedsNano(RAbs(RSub(a, b)))

isclose(a, b) == RLe(RAbs(RSub(a, b)), IsCloseTolerance)

\* lines 35-39
InitialWeights(df, weights) ==
    IF weights = None
    THEN [c \in ColSet(df) |-> Rat(1, Len(df.columns))]
    ELSE weights

\* line 45: {k: v/total_weight for k, v in self.weights.items()}
Normalized(w, total_weight) == [k \in DOMAIN w |-> RDiv(w[k], total_weight)]

NoObject == [none |-> TRUE]

NoPortfolioCall == [op |-> "none", raised |-> "none", warned |-> FALSE]

InitPortfolio ==
    /\ pf = NoObject
    /\ pfin = None
    /\ pfout = NoPortfolioCall
    /\ data = <<>> /\ metrics = <<>> /\ result = <<>> /\ computed = 0
    /\ inp = <<>> /\ out = <<>>

PortfolioFrame == UNCHANGED <<data, metrics, result, computed, inp, out>>

\* the arguments with the caller's weight mapping normalized in place
ArgsAfterInit_in_place(df, weights) ==
    [data |-> df,
     weights |-> IF weights = None \/ DOMAIN weights = {}
                    \/ isclose(SumWeights(weights), <<1, 1>>) \/ SumWeights(weights)[1] = 0
                 THEN weights
                 ELSE Normalized(weights, SumWeights(weights))]

\* The constructor's arguments as the caller holds them when it returns or
\* raises: line 32 and line 39 only bind them to attributes, and line 45
\* builds a new dict for self.weights; neither object is written to.
ArgsAfterInit(df, weights) == [data |-> df, weights |-> weights]

\* the outcome of a constructor call made with the arguments args
InitCall(raised, warned, args) ==
    [op |-> "__init__", raised |-> raised, warned |-> warned, args |-> args]

\* PortfolioAnalyzer(data, weights): lines 32-45.  The warning is printed
\* before the division; a float division by a zero total raises.
PortfolioAnalyzer_init ==
    /\ pf = NoObject /\ pfout.op = "none"
    /\ \E x \in PortfolioInputs :
         LET df           == x[1]
             weights      == x[2]
             w            == InitialWeights(df, weights)
             total_weight == SumWeights(w)
             args         == [data |-> df, weights |-> weights]
         IN  /\ pfin' = ArgsAfterInit(df, weights)
             /\ IF isclose(total_weight, <<1, 1>>)
                THEN /\ pf' = [data |-> df, weights |-> w]
                     /\ pfout' = InitCall("none", FALSE, args)
                ELSE IF total_weight[1] = 0 /\ DOMAIN w # {}
                     THEN /\ pf' = NoObject
                          /\ pfout' = InitCall("ZeroDivisionError", TRUE, args)
                     ELSE /\ pf' = [data |-> df, weights |-> Normalized(w, total_weight)]
                          /\ pfout' = InitCall("none", TRUE, args)
    /\ PortfolioFrame

\* returns[stock] without the weight
StockTerm_unweighted(returns, stock, weight, i) == returns.val[stock][i]

\* line 59: returns[stock] * weight, at row i
StockTerm(returns, stock, weight, i) == FMul(returns.val[stock][i], Num(weight))

\* lines 56-59 at row i: 0, plus the term of every stock of the weight
\* vector that is a column of the returns
RECURSIVE PortfolioSum(_, _, _, _)
PortfolioSum(returns, w, stocks, i) ==
    IF stocks = {} THEN Num(<<0, 1>>)
    ELSE LET stock == CHOOSE k \in stocks : TRUE
             rest  == PortfolioSum(returns, w, stocks \ {stock}, i)
         IN  IF stock \in ColSet(returns)
             THEN FAdd(rest, StockTerm(returns, stock, w[stock], i))
             ELSE rest

\* lines 54-61
portfolio_returns(df, w) ==
    LET returns == dropna_df(pct_change_df(df))
    IN  Series([i \in 1..Len(returns.idx) |->
                  [t |-> returns.idx[i], v |-> PortfolioSum(returns, w, DOMAIN w, i)]])

PortfolioCall(op, raised, val) ==
    [op |-> op, raised |-> raised, warned |-> FALSE, val |-> val]

\* calculate_portfolio_returns()
calculate_portfolio_returns ==
    /\ pf # NoObject
    /\ pfout' = PortfolioCall("calculate_portfolio_returns", "none",
                              portfolio_returns(pf.data, pf.weights))
    /\ UNCHANGED <<pf, pfin>>
    /\ PortfolioFrame

\* the drawdown measured from the starting value 1 as the first peak
PA_calculate_max_drawdown_from_start(returns) ==
    LET start      == <<[t |-> 0, v |-> Num(<<0, 1>>)]>>
        cumulative == Series(cumprod(OnePlus(start \o returns)))
        rmax       == Series(expanding_max(cumulative))
        drawdown   == Series([i \in 1..Len(cumulative) |->
                                [t |-> cumulative[i].t,
                                 v |-> FDiv(FSub(cumulative[i].v, rmax[i].v), rmax[i].v)]])
    IN  IF Len(returns) = 0 THEN NaN ELSE min(drawdown)

\* lines 100-105: _calculate_max_drawdown(returns)
PA_calculate_max_drawdown(returns) ==
    LET cumulative == Series(cumprod(OnePlus(returns)))
        rmax       == Series(expanding_max(cumulative))
        drawdown   == Series([i \in 1..Len(returns) |->
                                [t |-> returns[i].t,
                                 v |-> FDiv(FSub(cumulative[i].v, rmax[i].v), rmax[i].v)]])
    IN  min(drawdown)

\* the deviations from the mean of the non-NaN values, as rationals
Adjusted(s) ==
    LET x == Vals(dropna(s))
        m == mean(s).v
    IN  Series([i \in 1..Len(x) |-> RSub(x[i].v, m)])

\* the sum of the p-th powers (p = 2, 3, 4) of a sequence of rationals
PowerSum(a, p) ==
    SumR([i \in 1..Len(a) |->
            LET sq == RMul(a[i], a[i])
            IN  IF p = 2 THEN sq ELSE IF p = 3 THEN RMul(sq, a[i]) ELSE RMul(sq, sq)])

\* Series.skew(): NaN under 3 observations, 0 for a zero second moment,
\* otherwise n * sqrt(n-1) / (n-2) * m3 / m2**1.5
skew(s) ==
    LET a     == Adjusted(s)
        count == Len(a)
        m2    == PowerSum(a, 2)
        m3    == PowerSum(a, 3)
        r     == RDiv(m3, m2)
        coef  == Rat(count * count * (count - 1), (count - 2) * (count - 2))
    IN  IF count < 3 THEN NaN
        ELSE IF m2[1] = 0 THEN Num(<<0, 1>>)
        ELSE Root(RSgn(m3), RMul(coef, RDiv(RMul(r, r), m2)))

\* Series.kurtosis(): NaN under 4 observations, 0 for a zero denominator,
\* otherwise n(n+1)(n-1) m4 / ((n-2)(n-3) m2**2) - 3(n-1)**2 / ((n-2)(n-3))
kurtosis(s) ==
    LET a     == Adjusted(s)
        count == Len(a)
        m2    == PowerSum(a, 2)
        m4    == PowerSum(a, 4)
        adj   == Rat(3 * (count - 1) * (count - 1), (count - 2) * (count - 3))
        coef  == Rat(count * (count + 1) * (count - 1), (count - 2) * (count - 3))
    IN  IF count < 4 THEN NaN
        ELSE IF m2[1] = 0 THEN Num(<<0, 1>>)
        ELSE Num(RSub(RMul(coef, RDiv(RDiv(m4, m2), m2)), adj))

\* the keys of the stats dict, in the order of lines 86-96
StatNames ==
    <<"Total Return", "Annualized Return", "Annualized Volatility", "Sharpe Ratio",
      "Max Drawdown", "Skewness", "Kurtosis", "VaR (95%)", "CVaR (95%)">>

\* lines 86-96, from the portfolio returns
stats(returns) ==
    [keys |-> StatNames,
     tab  |-> [k \in Range(StatNames) |->
        CASE k = "Total Return" ->
                Num(RSub(CumProdAt(OnePlus(returns), Len(returns)), <<1, 1>>))
          [] k = "Annualized Return" -> FMul(mean(returns), Num(<<252, 1>>))
          [] k = "Annualized Volatility" -> TimesSqrt(std(returns), 252)
          [] k = "Sharpe Ratio" -> SqrtTimesOver(252, mean(returns), std(returns))
          [] k = "Max Drawdown" -> PA_calculate_max_drawdown(returns)
          [] k = "Skewness" -> skew(returns)
          [] k = "Kurtosis" -> kurtosis(returns)
          [] k = "VaR (95%)" -> quantile(returns, <<1, 20>>)
          [] k = "CVaR (95%)" -> mean(AtOrBelow(returns, quantile(returns, <<1, 20>>)))]]

\* get_portfolio_statistics()
get_portfolio_statistics ==
    /\ pf # NoObject
    /\ pfout' = PortfolioCall("get_portfolio_statistics", "none",
                              stats(portfolio_returns(pf.data, pf.weights)))
    /\ UNCHANGED <<pf, pfin>>
    /\ PortfolioFrame

\* PortfolioAnalyzer(data, weights) as an expression: the object built, or
\* the exception, and whether the warning was printed (lines 32-45)
NewAnalyzer(df, weights) ==
    LET w            == InitialWeights(df, weights)
        total_weight == SumWeights(w)
    IN  IF isclose(total_weight, <<1, 1>>)
        THEN [raised |-> "none", warned |-> FALSE, data |-> df, weights |-> w]
        ELSE IF total_weight[1] = 0 /\ DOMAIN w # {}
             THEN [raised |-> "ZeroDivisionError", warned |-> TRUE, data |-> df, weights |-> w]
             ELSE [raised |-> "none", warned |-> TRUE, data |-> df,
                   weights |-> Normalized(w, total_weight)]

\* the temporary analyzer built from the caller's own stored weights
temp_analyzer_own_weights(self, weights) == NewAnalyzer(self.data, self.weights)

\* line 120: temp_analyzer = PortfolioAnalyzer(self.data, weights)
temp_analyzer(self, weights) == NewAnalyzer(self.data, weights)

\* lines 117-125: the rows in the order of the strategies dict; the loop
\* ends at the first strategy whose analyzer cannot be built
comparison(self, strategies) ==
    LET names  == strategies.keys
        Temp(n) == temp_analyzer(self, strategies.tab[n])
        failed == {i \in 1..Len(names) : Temp(names[i]).raised # "none"}
    IN  IF failed # {}
        THEN [raised |-> "ZeroDivisionError", val |-> <<>>]
        ELSE [raised |-> "none",
              val |-> [index   |-> names,
                       columns |-> IF names = <<>> THEN <<>> ELSE StatNames,
                       val     |-> [n \in Range(names) |->
                                      stats(portfolio_returns(Temp(n).data,
                                                              Temp(n).weights)).tab]]]

\* the weight vectors of the strategies: balanced, long/short, one that needs
\* normalizing and names an asset without prices, and one that sums to 0
StrategyWeights ==
    {[k \in {"A", "B"} |-> <<1, 2>>],
     [k \in {"A", "B"} |-> IF k = "A" THEN <<2, 1>> ELSE <<-1, 1>>],
     [k \in {"A", "C"} |-> <<1, 1>>],
     [k \in {"A", "B"} |-> IF k = "A" THEN <<1, 1>> ELSE <<-1, 1>>]}

\* strategies dicts of up to two names, in both insertion orders
StrategyInputs ==
    {EmptyDict}
      \cup {DictSet(EmptyDict, "X", v) : v \in StrategyWeights}
      \cup {DictSet(DictSet(EmptyDict, n[1], v[1]), n[2], v[2]) :
              n \in {<<"X", "Y">>, <<"Y", "X">>},
              v \in {u \in StrategyWeights \X StrategyWeights : u[1] # u[2]}}

\* The strategies mapping as the caller holds it after compare_strategies:
\* lines 119-120 only read it, and hand each weight vector to a constructor.
\* The loop stops at the first analyzer that cannot be built.
StrategiesAfter(self, strategies) ==
    LET names   == strategies.keys
        failed  == {i \in 1..Len(names) : temp_analyzer(self, strategies.tab[names[i]]).raised # "none"}
        visited == IF failed = {} THEN Range(names)
                   ELSE {names[i] : i \in 1..MinR({<<j, 1>> : j \in failed})[1]}
    IN  [keys |-> names,
         tab  |-> [n \in Range(names) |->
                     IF n \in visited
                     THEN ArgsAfterInit(self.data, strategies.tab[n]).weights
                     ELSE strategies.tab[n]]]

\* compare_strategies(strategies); one comparison is followed per analyzer,
\* right after its construction.  strategies is the mapping as supplied,
\* strategies_after the mapping once the call is over.
compare_strategies ==
    /\ pf # NoObject /\ pfout.op = "__init__"
    /\ \E strategies \in StrategyInputs :
         LET c == comparison(pf, strategies)
         IN  pfout' = [op |-> "compare_strategies", raised |-> c.raised, warned |-> FALSE,
                       val |-> c.val, strategies |-> strategies,
                       strategies_after |-> StrategiesAfter(pf, strategies)]
    /\ UNCHANGED <<pf, pfin>>
    /\ PortfolioFrame

NextPortfolio ==
    \/ PortfolioAnalyzer_init
    \/ calculate_portfolio_returns
    \/ get_portfolio_statistics
    \/ compare_strategies

SpecPortfolio == InitPortfolio /\ [][NextPortfolio]_vars

-----------------------------------------------------------------------------
(* Properties of PortfolioAnalyzer, checked under SpecPortfolio.           *)

Constructed == pfout.op = "__init__" /\ pfin.weights # None

SuppliedSum == SumWeights(pfin.weights)

\* C10 as stated: whenever the supplied weights sum to some S other than
\* exactly 1 (S non-zero, for the division to mean anything) every stored
\* weight is the supplied one divided by S and a warning is emitted; weights
\* that sum to 1 are stored unchanged without a warning.
C10_NormalizedUnlessSumIsOne ==
    (Constructed /\ SuppliedSum[1] # 0) =>
        IF SuppliedSum # <<1, 1>>
        THEN /\ pfout.raised = "none" /\ pfout.warned
             /\ \A k \in DOMAIN pfin.weights :
                    pf.weights[k] = RDiv(pfin.weights[k], SuppliedSum)
        ELSE pfout.raised = "none" /\ ~pfout.warned /\ pf.weights = pfin.weights

\* C10 amended: when the non-zero sum S misses 1 by more than np.isclose
\* allows (|S - 1| > 1e-8 + 1e-5) a warning is emitted and every stored weight
\* is the supplied one divided by S, so that the stored weights sum to 1; a
\* sum within that tolerance of 1, not only a sum of exactly 1, is stored
\* unchanged without a warning.
C10_NormalizedUnlessSumIsClose ==
    (Constructed /\ SuppliedSum[1] # 0) =>
        IF RLt(IsCloseTolerance, RAbs(RSub(SuppliedSum, <<1, 1>>)))
        THEN /\ pfout.raised = "none" /\ pfout.warned
             /\ DOMAIN pf.weights = DOMAIN pfin.weights
             /\ \A k \in DOMAIN pfin.weights :
                    pf.weights[k] = RDiv(pfin.weights[k], SuppliedSum)
             /\ SumWeights(pf.weights) = <<1, 1>>
        ELSE pfout.raised = "none" /\ ~pfout.warned /\ pf.weights = pfin.weights

\* {A: 2, B: 2} becomes {A: 1/2, B: 1/2}, with a warning
C10_Witness ==
    /\ Constructed /\ pfout.warned /\ pfout.raised = "none"
    /\ pfin.weights = [k \in {"A", "B"} |-> <<2, 1>>]
    /\ pf.weights = [k \in {"A", "B"} |-> <<1, 2>>]

\* C11: constructing PortfolioAnalyzer never raises because of the weight
\* sum: for every supplied weight vector, negative weights and a sum of 0
\* included, the constructor completes and an object exists.
C11_ConstructorNeverRaises ==
    pfout.op = "__init__" => (pfout.raised = "none" /\ pf # NoObject)

\* the simple return of a column between rows i and i+1 of the price table
PriceReturn(df, col, i) ==
    RSub(RDiv(df.val[col][i + 1].v, df.val[col][i].v), <<1, 1>>)

\* the assets that have both a stored weight and a column of prices
Held == DOMAIN pf.weights \cap ColSet(pf.data)

\* C12: calculate_portfolio_returns returns, at every return timestamp (each
\* date of the price table but the first), the sum over the assets that are
\* both in the stored weight vector and in the price table of weight times
\* that asset's return; a weighted asset without prices raises nothing, and
\* an asset without a weight adds nothing.
C12_PortfolioReturnsAreWeightedSum ==
    pfout.op = "calculate_portfolio_returns" =>
        LET n == Len(pf.data.idx)
        IN  /\ pfout.raised = "none"
            /\ Len(pfout.val) = (IF n = 0 THEN 0 ELSE n - 1)
            /\ \A i \in 1..Len(pfout.val) :
                 /\ pfout.val[i].t = pf.data.idx[i + 1]
                 /\ pfout.val[i].v =
                      Num(SumOver([k \in Held |->
                                     RMul(pf.weights[k], PriceReturn(pf.data, k, i))],
                                  Held))

\* weights on A and on C, none on B: the portfolio moves with A alone
C12_Witness ==
    /\ pfout.op = "calculate_portfolio_returns" /\ pfout.raised = "none"
    /\ DOMAIN pf.weights = {"A", "C"}
    /\ Len(pfout.val) > 0
    /\ pfout.val[1].v # Num(<<0, 1>>)

\* a fresh analyzer over the caller's price table with a strategy's weights
Fresh(name) == NewAnalyzer(pf.data, pfout.strategies.tab[name])

SumError == RAbs(RSub(SuppliedSum, <<1, 1>>))

\* C28 as stated: a supplied vector whose sum differs from 1 by more than
\* 1e-9 is normalized with a warning, and only a vector whose sum is within
\* 1e-9 of 1 is left as supplied (sums of 0 aside).
C28_NormalizedBeyond1e9 ==
    (Constructed /\ SuppliedSum[1] # 0) =>
        IF ExceedsNano(SumError)
        THEN pfout.warned /\ SumWeights(pf.weights) = <<1, 1>>
        ELSE ~pfout.warned /\ pf.weights = pfin.weights

\* C28 amended: the constructor warns and normalizes exactly when the sum
\* differs from 1 by more than 1.001e-5, the tolerance of np.isclose (sums of
\* 0 aside); a vector whose sum is within that tolerance, such as 1.000001,
\* is stored as supplied, without a warning, and its stored weights do not
\* sum to 1.
C28_NormalizedBeyondIsCloseTolerance ==
    (Constructed /\ SuppliedSum[1] # 0) =>
        /\ pfout.raised = "none"
        /\ pfout.warned <=> RLt(IsCloseTolerance, SumError)
        /\ pfout.warned =>
              (pf.weights = Normalized(pfin.weights, SuppliedSum)
                  /\ SumWeights(pf.weights) = <<1, 1>>)
        /\ ~pfout.warned =>
              (pf.weights = pfin.weights /\ SumWeights(pf.weights) = SuppliedSum)

\* {A: 0.500001, B: 0.5}: a sum of 1.000001 stored as it came, no warning
C28_Witness ==
    /\ Constructed /\ pfout.raised = "none" /\ ~pfout.warned
    /\ SuppliedSum = <<1000001, 1000000>>
    /\ pf.weights = pfin.weights
    /\ SumWeights(pf.weights) # <<1, 1>>

\* C26: the weights calculate_portfolio_returns applies, those of the assets
\* present in the price table, sum to 1, also when the weight vector names
\* assets absent from the table (stated for an analyzer whose stored weights
\* sum to exactly 1, that holds at least one priced asset, and whose table
\* yields at least one return).
C26_AppliedWeightsSumToOne ==
    (pfout.op = "calculate_portfolio_returns" /\ Held # {} /\ Len(pfout.val) > 0
        /\ SumWeights(pf.weights) = <<1, 1>>)
        => SumOver(pf.weights, Held) = <<1, 1>>

OnlyAsset == pf.data.columns[1]

\* the portfolio is one asset held at weight 1
SingleAssetAtOne ==
    /\ Len(pf.data.columns) = 1
    /\ OnlyAsset \in DOMAIN pf.weights
    /\ pf.weights[OnlyAsset] = <<1, 1>>

\* C22: over a price table with a single asset held at weight 1,
\* get_portfolio_statistics gives an Annualized Volatility, Sharpe Ratio, Max
\* Drawdown, VaR (95%) and CVaR (95%) equal to calculate_volatility,
\* calculate_sharpe_ratio with a zero risk-free rate, calculate_max_drawdown,
\* calculate_var and calculate_cvar of that asset, with 252 periods per year
\* and confidence 0.95.
C22_StatisticsMatchCalculators ==
    (pfout.op = "get_portfolio_statistics" /\ SingleAssetAtOne) =>
        LET prices  == Column(pf.data, OnlyAsset)
            returns == calculate_returns(prices)
            st      == pfout.val.tab
        IN  /\ st["Annualized Volatility"] = calculate_volatility(returns, 252)
            /\ st["Sharpe Ratio"] = calculate_sharpe_ratio(returns, Scalar(<<0, 1>>), 252)
            /\ st["Max Drawdown"] = calculate_max_drawdown(prices)
            /\ st["VaR (95%)"] = calculate_var(returns, <<19, 20>>)
            /\ st["CVaR (95%)"] = calculate_cvar(returns, <<19, 20>>)

\* B alone, falling from its first price and recovering: a Sharpe ratio and
\* a loss at the 5% quantile, and the drawdown both sides report is 0
C22_Witness ==
    /\ pfout.op = "get_portfolio_statistics" /\ SingleAssetAtOne
    /\ OnlyAsset = "B" /\ Len(pf.data.idx) = MaxDays + 1
    /\ IsFinite(pfout.val.tab["Sharpe Ratio"])
    /\ pfout.val.tab["Max Drawdown"] = Num(<<0, 1>>)
    /\ FLt(pfout.val.tab["VaR (95%)"], Num(<<0, 1>>))

-----------------------------------------------------------------------------
(* Properties of the metrics collection, checked under Spec.               *)

\* the order in which the claim lists the metrics
ClaimedMetricOrder ==
    <<"volatility", "sharpe", "sortino", "max_drawdown", "var", "cvar",
      "semidev", "ulcer", "mad">>

SharpeFirstOrder ==
    <<"sharpe", "sortino", "volatility", "max_drawdown", "var", "cvar",
      "semidev", "ulcer", "mad">>

\* a summary was returned by get_latest_metrics or export_results
SummaryReturned ==
    result.op \in {"get_latest_metrics", "export_results"} /\ result.raised = "none"

\* C13 as stated: calculate_all_metrics produces the nine metrics in the
\* order volatility, Sharpe, Sortino, drawdown, VaR, CVaR, semi-deviation,
\* Ulcer, MAD, and the summary lists them in that order.
C13_OrderVolatilityFirst ==
    /\ computed => metrics.keys = ClaimedMetricOrder
    /\ SummaryReturned => result.val.columns = ClaimedMetricOrder

\* C13 amended: after every calculate_all_metrics, however many runs came
\* before, the collection holds the nine metrics in the order Sharpe,
\* Sortino, volatility, drawdown, VaR, CVaR, semi-deviation, Ulcer, MAD, and
\* every summary lists the metrics in that same order.
C13_OrderSharpeFirst ==
    /\ computed => metrics.keys = SharpeFirstOrder
    /\ SummaryReturned => result.val.columns = SharpeFirstOrder

\* a summary of computed metrics over two assets
C13_Witness ==
    /\ computed /\ result.op = "get_latest_metrics" /\ result.raised = "none"
    /\ Len(result.val.columns) = 9 /\ result.val.columns[1] = "sharpe"
    /\ result.val.columns[3] = "volatility"
    /\ Len(result.val.index) = 2

\* C14: the summary returned by get_latest_metrics has exactly one row per
\* metric, labelled by the metric names, and exactly one column per asset of
\* the price table the metrics were computed from, labelled by the assets
\* (stated for a table of at least one asset).
C14_SummaryRowsAreMetrics ==
    (SummaryReturned /\ metrics.tab[metrics.keys[1]].columns # <<>>) =>
        /\ result.val.index = metrics.keys
        /\ result.val.columns = metrics.tab[metrics.keys[1]].columns

\* what the calculator of a metric returns for one asset
MetricValue(name, returns, prices, rf) ==
    CASE name = "sharpe" -> calculate_sharpe_ratio(returns, rf, PeriodsPerYear)
      [] name = "sortino" -> calculate_sortino_ratio(returns, rf, PeriodsPerYear)
      [] name = "volatility" -> calculate_volatility(returns, PeriodsPerYear)
      [] name = "max_drawdown" -> calculate_max_drawdown(prices)
      [] name = "var" -> calculate_var(returns, <<19, 20>>)
      [] name = "cvar" -> calculate_cvar(returns, <<19, 20>>)
      [] name = "semidev" -> calculate_semi_deviation(returns, PeriodsPerYear)
      [] name = "ulcer" -> calculate_ulcer_index(prices)
      [] name = "mad" -> calculate_mad(returns)

\* C18: right after calculate_all_metrics, the collection holds, for each of
\* the nine metrics and each asset of the price table, exactly the value the
\* calculator returns for it, NaN when that is NaN; and a summary holds, for
\* every metric and asset of the collection, the collection's value, NaN
\* where that is NaN: no entry is dropped, zeroed or turned into an error.
C18_NaNIsPreserved ==
    /\ (result.op = "calculate_all_metrics" /\ result.raised = "none") =>
          /\ Range(metrics.keys) = Range(SharpeFirstOrder)
          /\ \E di_data \in DiDataInputs :
               \A name \in Range(metrics.keys) :
                  /\ metrics.tab[name].columns = data.columns
                  /\ DOMAIN metrics.tab[name].val = ColSet(data)
                  /\ \A c \in ColSet(data) :
                       metrics.tab[name].val[c] =
                          MetricValue(name, Column(calculate_returns_df(data), c),
                                      Column(data, c), RiskFreeRate(di_data))
    /\ SummaryReturned =>
          /\ Range(result.val.columns) = Range(metrics.keys)
          /\ \A name \in Range(metrics.keys) :
               /\ result.val.index = metrics.tab[name].columns
               /\ DOMAIN result.val.val[name] = Range(metrics.tab[name].columns)
               /\ \A c \in Range(metrics.tab[name].columns) :
                    /\ result.val.val[name][c] = metrics.tab[name].val[c]
                    /\ IsNaN(metrics.tab[name].val[c]) <=> IsNaN(result.val.val[name][c])

\* a summary over two assets with an undefined volatility next to a defined VaR
C18_Witness ==
    /\ result.op = "get_latest_metrics" /\ result.raised = "none"
    /\ Len(result.val.index) = 2
    /\ IsNaN(result.val.val["volatility"]["A"])
    /\ IsFinite(result.val.val["var"]["A"])
    /\ IsFinite(result.val.val["max_drawdown"]["B"])

\* C24: whenever get_latest_metrics returns a summary, after any sequence of
\* download_data, calculate_all_metrics and get_latest_metrics calls, its
\* assets are exactly the columns of the current price table, it holds all
\* nine metrics, and each value is the one computed from the current price
\* table: no summary of a table that a re-download has replaced.
C24_SummaryIsOfCurrentData ==
    (result.op = "get_latest_metrics" /\ result.raised = "none") =>
        /\ result.val.index = data.columns
        /\ Range(result.val.columns) = Range(SharpeFirstOrder)
        /\ \E di_data \in DiDataInputs :
             \A name \in Range(SharpeFirstOrder) : \A c \in ColSet(data) :
                 result.val.val[name][c] =
                    MetricValue(name, Column(calculate_returns_df(data), c),
                                Column(data, c), RiskFreeRate(di_data))

====
